---- MODULE Spec2Model ----
(***************************************************************************)
(* The default user interface module of Annotator (annotator.ui.main).     *)
(* Two variants of the module are modelled side by side:                   *)
(*   "part_000" : src/unnamed/part_000 (add control + editor)              *)
(*   "main_js"  : src/src/ui/main.js   (no add control, no editor)         *)
(* The host application (app.annotations, the hook runner) and the widgets *)
(* (Adder, Editor, Highlighter, TextSelector, Viewer) are collaborators.   *)
(***************************************************************************)
EXTENDS Integers, Sequences, FiniteSets, TLC

VARIABLES
    variant,        \* which of the two source files is running
    phase,          \* "constructed" | "started" | "destroyed" | "threw"
    state,          \* the module's local `state` object (a JS object: keys may be absent)
    dynamicStyle,   \* TRUE while the '#annotator-dynamic-style' element is in the page
    lastEvent,      \* the handler of this module that ran last, with its arguments
    calls,          \* the calls on collaborators made by that handler, in order
    ops,            \* the host's create/update/delete operations, oldest first
    store,          \* the annotations the host has persisted
    fin,            \* annotationFactory: the inputs of the call in progress
    fpc,            \* annotationFactory: position in the function
    fi,             \* annotationFactory: loop index i
    text,           \* annotationFactory: local `text`
    serializedRanges, \* annotationFactory: local `serializedRanges`
    fout,           \* annotationFactory: the returned annotation
    who,            \* permission checkboxes: what ident.who() returns
    annotation,     \* permission checkboxes: the annotation in the editor
    field,          \* permission checkboxes: the two checkbox fields
    cbLog           \* permission checkboxes: the callbacks run so far

vars == <<variant, phase, state, dynamicStyle, lastEvent, calls, ops, store,
          fin, fpc, fi, text, serializedRanges, fout,
          who, annotation, field, cbLog>>

----------------------------------------------------------------------------
\* Bounds of the model.

\* The host starts at most this many create/update/delete operations.
MaxOps == 2
\* annotationFactory is applied to range lists of at most this length.
MaxLen == 3

----------------------------------------------------------------------------
\* Values.

Variants == {"part_000", "main_js"}

\* The ignore selector main() passes to annotationFactory.
IgnoreSelector == ".annotator-hl"

\* options.element (the DOM root) as main() leaves it.
Element == "document.body"

\* The selected ranges a text selection can hold.
Ranges == {"r1", "r2"}

\* JS null for state.interactionPoint.
NullPoint == [kind |-> "null", top |-> 0, left |-> 0]

\* Mouse events of the text selector.
Events == {[pageX |-> 1, pageY |-> 2], [pageX |-> 3, pageY |-> 4]}

\* The positions the viewer popup can be shown at.
ViewerPositions == {[kind |-> "css", top |-> 5, left |-> 6]}

\* No annotation (an argument slot that a call does not use).
NoAnnotation == [ranges |-> <<>>]

----------------------------------------------------------------------------
\* annotationFactory (pure).  The range objects come from the range
\* collaborator: r.text() and r.serialize(contextEl, ignoreSelector).

\* r.serialize(contextEl, ignoreSelector): the storage-independent form of r,
\* relative to contextEl, skipping nodes that match ignoreSelector.
Serialize(r, contextEl, ignoreSelector) ==
    [range |-> r, root |-> contextEl, ignore |-> ignoreSelector]

\* r.text(): the selected text, with surrounding white space.
RangeText(r) == <<" ", r, " ">>

\* String.prototype.trim
RECURSIVE Trim(_)
Trim(s) ==
    IF s = <<>> THEN s
    ELSE IF Head(s) = " " THEN Trim(Tail(s))
    ELSE IF s[Len(s)] = " " THEN Trim(SubSeq(s, 1, Len(s) - 1))
    ELSE s

\* text.push(r.text().trim())
TextPush(acc, r) == Append(acc, Trim(RangeText(r)))

FactoryPush_Prepend(acc, r, contextEl, ignoreSelector) ==
    <<Serialize(r, contextEl, ignoreSelector)>> \o acc

\* serializedRanges.push(r.serialize(contextEl, ignoreSelector))
FactoryPush(acc, r, contextEl, ignoreSelector) ==
    Append(acc, Serialize(r, contextEl, ignoreSelector))

\* The object literal annotationFactory returns.
FactoryResult(serialized) == [ranges |-> serialized]

\* The for loop of annotationFactory, from index i (0-based) on.
RECURSIVE FactoryLoop(_, _, _, _, _)
FactoryLoop(ranges, i, acc, contextEl, ignoreSelector) ==
    IF i < Len(ranges)
    THEN FactoryLoop(ranges, i + 1,
                     FactoryPush(acc, ranges[i + 1], contextEl, ignoreSelector),
                     contextEl, ignoreSelector)
    ELSE acc

annotationFactory(contextEl, ignoreSelector, ranges) ==
    FactoryResult(FactoryLoop(ranges, 0, <<>>, contextEl, ignoreSelector))

\* var makeAnnotation = annotationFactory(options.element, '.annotator-hl')
makeAnnotation(ranges) == annotationFactory(Element, IgnoreSelector, ranges)

\* util.mousePosition(event)
MousePosition(event) == [kind |-> "mouse", top |-> event.pageY, left |-> event.pageX]

----------------------------------------------------------------------------
\* The lifecycle: values.

\* The range lists the text selector reports in the lifecycle model.
Selections == {<<>>, <<"r1", "r2">>}

\* The annotations the host loads from storage.
Preloaded == {[ranges |-> <<Serialize("r2", Element, IgnoreSelector)>>]}

\* A call on a collaborator: the function, then its arguments by kind.
Call(fn, arg, ann, point) ==
    [fn |-> fn, arg |-> arg, ann |-> ann, anns |-> {}, point |-> point]

Event(name, ranges, ann, point) ==
    [name |-> name, ranges |-> ranges, ann |-> ann, point |-> point]

NoEvent == Event("none", <<>>, NoAnnotation, NullPoint)

\* A widget as its constructor leaves it.
NewAdder == [attached |-> FALSE, destroyed |-> 0, shown |-> FALSE,
             annotation |-> NoAnnotation, position |-> NullPoint]
NewEditor == [attached |-> FALSE, destroyed |-> 0, fields |-> <<>>,
              waiting |-> 0, position |-> NullPoint]
NewHighlighter == [destroyed |-> 0]
NewTextSelector == [destroyed |-> 0]
NewViewer == [attached |-> FALSE, destroyed |-> 0]

\* An operation of the host as app.annotations.create/update/delete starts it.
NewOp(kind, ann) ==
    [kind |-> kind, ann |-> ann, stage |-> "before",
     returned |-> "none", editing |-> "none"]

\* The state of the deferred result the before-hook handed to the host.
Deferred(op) ==
    CASE op.returned = "none" -> "none"
      [] op.returned = "Promise.resolve" -> "resolved"
      [] op.returned = "editor.load" ->
            CASE op.editing = "submitted" -> "resolved"
              [] op.editing = "cancelled" -> "rejected"
              [] OTHER -> "pending"

----------------------------------------------------------------------------
\* The lifecycle: what the two source files decide differently.

\* The fields of `state` that start(app) sets, as start leaves them.
StartFields(v) ==
    IF v = "part_000"
    THEN [adder |-> [NewAdder EXCEPT !.attached = TRUE],
          editor |-> [NewEditor EXCEPT !.attached = TRUE,
                                       !.fields = <<"read", "update">>],
          highlighter |-> NewHighlighter,
          textselector |-> NewTextSelector,
          viewer |-> [NewViewer EXCEPT !.attached = TRUE]]
    ELSE [highlighter |-> NewHighlighter,
          textselector |-> NewTextSelector,
          viewer |-> [NewViewer EXCEPT !.attached = TRUE]]

\* The calls start(app) makes on its collaborators, in order.
StartCalls(v) ==
    <<Call("registry.getUtility", "identityPolicy", NoAnnotation, NullPoint),
      Call("registry.getUtility", "authorizationPolicy", NoAnnotation, NullPoint)>>
    \o (IF v = "part_000"
        THEN <<Call("adder.attach", "", NoAnnotation, NullPoint),
               Call("editor.attach", "", NoAnnotation, NullPoint),
               Call("editor.addField", "read", NoAnnotation, NullPoint),
               Call("editor.addField", "update", NoAnnotation, NullPoint)>>
        ELSE <<>>)
    \o <<Call("viewer.attach", "", NoAnnotation, NullPoint)>>

\* The fields of `state` that destroy() dereferences, in order.
DestroyOrder(v) ==
    IF v = "part_000"
    THEN <<"adder", "editor", "highlighter", "textselector", "viewer">>
    ELSE <<"editor", "highlighter", "textselector", "viewer">>

HasSelection_Always(ranges) == TRUE

\* if (ranges.length > 0)
HasSelection(ranges) == Len(ranges) > 0

HookReturns_Resolved(v) == "Promise.resolve"

\* What beforeAnnotationCreated / beforeAnnotationUpdated return.
HookReturns(v) == IF v = "part_000" THEN "editor.load" ELSE "Promise.resolve"

\* Whether the before-hooks call state.editor.load(annotation, state.interactionPoint).
HookLoadsEditor(v) == v = "part_000"

\* destroy(): state[order[i]].destroy() for i, i+1, ...; a field that start
\* never set is undefined, and calling destroy on it throws a TypeError,
\* which ends destroy() there.
RECURSIVE DestroyRun(_, _, _, _)
DestroyRun(st, order, i, done) ==
    IF i > Len(order)
    THEN [state |-> st, threw |-> FALSE, calls |-> done]
    ELSE IF order[i] \notin DOMAIN st
    THEN [state |-> st, threw |-> TRUE, calls |-> done]
    ELSE DestroyRun([st EXCEPT ![order[i]].destroyed = @ + 1], order, i + 1,
                    Append(done, Call(order[i] \o ".destroy", "", NoAnnotation, NullPoint)))

----------------------------------------------------------------------------
\* The lifecycle: the module's handlers.  The host runs the before-hooks
\* inside app.annotations.create / update, so a handler that calls one of them
\* runs beforeAnnotationCreated / beforeAnnotationUpdated before it returns.

NotLifecycle == <<fin, fpc, fi, text, serializedRanges, fout, who, annotation, field, cbLog>>

\* beforeAnnotationCreated(annotation) / beforeAnnotationUpdated(annotation)
\* for the operation the host is starting, with `state` being st: the state,
\* the operations and the calls made, when the hook returns.
BeforeHook(st, kind, ann) ==
    LET n == Len(ops) + 1
        op == NewOp(kind, ann) IN
    IF HookLoadsEditor(variant)
    THEN [state |-> [st EXCEPT !.editor.waiting = n,
                               !.editor.position = st.interactionPoint],
          ops |-> [j \in 1..n |->
                    IF j = n
                    THEN [op EXCEPT !.returned = HookReturns(variant),
                                    !.editing = "waiting"]
                    ELSE IF ops[j].editing = "waiting"
                    THEN [ops[j] EXCEPT !.editing = "superseded"]
                    ELSE ops[j]],
          calls |-> <<Call("editor.load", "", ann, st.interactionPoint)>>]
    ELSE [state |-> st,
          ops |-> Append(ops, [op EXCEPT !.returned = HookReturns(variant)]),
          calls |-> <<>>]

\* start(app)
Start ==
    /\ phase = "constructed"
    /\ phase' = "started"
    /\ state' = StartFields(variant) @@ state
    /\ lastEvent' = Event("start", <<>>, NoAnnotation, NullPoint)
    /\ calls' = StartCalls(variant)
    /\ UNCHANGED <<variant, dynamicStyle, ops, store>>
    /\ UNCHANGED NotLifecycle

\* destroy()
Destroy ==
    /\ phase = "started"
    /\ LET r == DestroyRun(state, DestroyOrder(variant), 1, <<>>) IN
        /\ state' = r.state
        /\ lastEvent' = Event("destroy", <<>>, NoAnnotation, NullPoint)
        /\ IF r.threw
           THEN /\ phase' = "threw"
                /\ calls' = r.calls
                /\ UNCHANGED dynamicStyle
           ELSE /\ phase' = "destroyed"
                /\ calls' = Append(r.calls,
                        Call("$.remove", "#annotator-dynamic-style", NoAnnotation, NullPoint))
                /\ dynamicStyle' = FALSE
    /\ UNCHANGED <<variant, ops, store>>
    /\ UNCHANGED NotLifecycle

\* textselector onSelection(ranges, event)
OnSelection(ranges, event) ==
    /\ phase = "started"
    /\ lastEvent' = Event("onSelection", ranges, NoAnnotation, MousePosition(event))
    /\ IF HasSelection(ranges)
       THEN LET ann == makeAnnotation(ranges)
                point == MousePosition(event) IN
            IF variant = "part_000"
            THEN /\ state' = [state EXCEPT !.interactionPoint = point,
                                           !.adder.shown = TRUE,
                                           !.adder.annotation = ann,
                                           !.adder.position = point]
                 /\ calls' = <<Call("makeAnnotation", "", ann, NullPoint),
                               Call("adder.load", "", ann, point)>>
                 /\ UNCHANGED ops
            ELSE LET r == BeforeHook([state EXCEPT !.interactionPoint = point],
                                     "create", ann) IN
                 /\ Len(ops) < MaxOps
                 /\ state' = r.state
                 /\ calls' = <<Call("makeAnnotation", "", ann, NullPoint),
                               Call("app.annotations.create", "", ann, NullPoint)>>
                              \o r.calls
                 /\ ops' = r.ops
       ELSE IF variant = "part_000"
            THEN /\ state' = [state EXCEPT !.adder.shown = FALSE]
                 /\ calls' = <<Call("adder.hide", "", NoAnnotation, NullPoint)>>
                 /\ UNCHANGED ops
            ELSE /\ calls' = <<>>
                 /\ UNCHANGED <<state, ops>>
    /\ UNCHANGED <<variant, phase, dynamicStyle, store>>
    /\ UNCHANGED NotLifecycle

\* adder onCreate(ann): the user clicks the add control, which hides and
\* hands the annotation it was loaded with to onCreate.
AdderOnCreate ==
    /\ phase = "started"
    /\ "adder" \in DOMAIN state
    /\ state.adder.shown
    /\ Len(ops) < MaxOps
    /\ LET ann == state.adder.annotation
           r == BeforeHook([state EXCEPT !.adder.shown = FALSE], "create", ann) IN
        /\ lastEvent' = Event("adder.onCreate", <<>>, ann, state.adder.position)
        /\ calls' = <<Call("app.annotations.create", "", ann, NullPoint)>> \o r.calls
        /\ ops' = r.ops
        /\ state' = r.state
    /\ UNCHANGED <<variant, phase, dynamicStyle, store>>
    /\ UNCHANGED NotLifecycle

\* viewer onEdit(ann), with the viewer popup shown at pos
ViewerOnEdit(ann, pos) ==
    /\ phase = "started"
    /\ Len(ops) < MaxOps
    /\ LET r == BeforeHook([state EXCEPT !.interactionPoint = pos], "update", ann) IN
        /\ state' = r.state
        /\ calls' = <<Call("app.annotations.update", "", ann, NullPoint)>> \o r.calls
        /\ ops' = r.ops
    /\ lastEvent' = Event("viewer.onEdit", <<>>, ann, pos)
    /\ UNCHANGED <<variant, phase, dynamicStyle, store>>
    /\ UNCHANGED NotLifecycle

\* viewer onDelete(ann)
ViewerOnDelete(ann) ==
    /\ phase = "started"
    /\ Len(ops) < MaxOps
    /\ lastEvent' = Event("viewer.onDelete", <<>>, ann, NullPoint)
    /\ calls' = <<Call("app.annotations.delete", "", ann, NullPoint)>>
    /\ ops' = Append(ops, NewOp("delete", ann))
    /\ UNCHANGED <<variant, phase, state, dynamicStyle, store>>
    /\ UNCHANGED NotLifecycle

\* annotationsLoaded(anns), called by the host once it has loaded anns
AnnotationsLoaded(anns) ==
    /\ phase = "started"
    /\ ~ (anns \subseteq store)
    /\ store' = store \cup anns
    /\ lastEvent' = Event("annotationsLoaded", <<>>, NoAnnotation, NullPoint)
    /\ calls' = <<[Call("highlighter.drawAll", "", NoAnnotation, NullPoint)
                     EXCEPT !.anns = anns]>>
    /\ UNCHANGED <<variant, phase, state, dynamicStyle, ops>>
    /\ UNCHANGED NotLifecycle

\* The after-hook the host calls for each kind of operation.
AfterHookName(kind) ==
    CASE kind = "create" -> "annotationCreated"
      [] kind = "update" -> "annotationUpdated"
      [] kind = "delete" -> "annotationDeleted"

\* The highlighter method each after-hook calls.
RenderCall(kind) ==
    CASE kind = "create" -> "highlighter.draw"
      [] kind = "update" -> "highlighter.redraw"
      [] kind = "delete" -> "highlighter.undraw"

\* annotationCreated(ann) / annotationUpdated(ann) / annotationDeleted(ann),
\* called by the host after it has stored operation i
AfterHook(i) ==
    /\ phase = "started"
    /\ ops[i].stage = "stored"
    /\ ops' = [ops EXCEPT ![i].stage = "done"]
    /\ lastEvent' = Event(AfterHookName(ops[i].kind), <<>>, ops[i].ann, NullPoint)
    /\ calls' = <<Call(RenderCall(ops[i].kind), "", ops[i].ann, NullPoint)>>
    /\ UNCHANGED <<variant, phase, state, dynamicStyle, store>>
    /\ UNCHANGED NotLifecycle

----------------------------------------------------------------------------
\* The lifecycle: the editor's user and the host.

\* The user submits (ok = TRUE) or cancels the editor: the promise that
\* editor.load returned is resolved or rejected.
EditorClose(ok) ==
    /\ phase = "started"
    /\ "editor" \in DOMAIN state
    /\ state.editor.waiting # 0
    /\ ops' = [ops EXCEPT ![state.editor.waiting].editing =
                            IF ok THEN "submitted" ELSE "cancelled"]
    /\ state' = [state EXCEPT !.editor.waiting = 0]
    /\ lastEvent' = NoEvent
    /\ calls' = <<>>
    /\ UNCHANGED <<variant, phase, dynamicStyle, store>>
    /\ UNCHANGED NotLifecycle

\* The host stores operation i once the before-hook's deferred result is
\* resolved (a delete has no before-hook in this module); a rejected or
\* pending result keeps the operation from ever getting here.
HostStore(i) ==
    /\ phase = "started"
    /\ ops[i].stage = "before"
    /\ ops[i].kind = "delete" \/ Deferred(ops[i]) = "resolved"
    /\ ops' = [ops EXCEPT ![i].stage = "stored"]
    /\ store' = IF ops[i].kind = "delete" THEN store \ {ops[i].ann}
                ELSE store \cup {ops[i].ann}
    /\ lastEvent' = NoEvent
    /\ calls' = <<>>
    /\ UNCHANGED <<variant, phase, state, dynamicStyle>>
    /\ UNCHANGED NotLifecycle

----------------------------------------------------------------------------
\* annotationFactory, statement by statement.

\* The DOM roots annotationFactory is given as contextEl.
ContextEls == {Element, "#content"}

NotFactory == <<variant, phase, state, dynamicStyle, lastEvent, calls, ops, store,
                who, annotation, field, cbLog>>

RangeLists(n) == UNION {[1..k -> Ranges] : k \in 0..n}

\* makeAnnotation(ranges) is called: var text = [], serializedRanges = []
FactoryCall(ranges, contextEl) ==
    /\ fpc \in {"idle", "returned"}
    /\ fin' = [ranges |-> ranges, contextEl |-> contextEl, ignoreSelector |-> IgnoreSelector]
    /\ fpc' = "loop"
    /\ fi' = 0
    /\ text' = <<>>
    /\ serializedRanges' = <<>>
    /\ fout' = NoAnnotation
    /\ UNCHANGED NotFactory

\* one iteration of the for loop
FactoryIter ==
    /\ fpc = "loop"
    /\ fi < Len(fin.ranges)
    /\ LET r == fin.ranges[fi + 1] IN
        /\ text' = TextPush(text, r)
        /\ serializedRanges' =
              FactoryPush(serializedRanges, r, fin.contextEl, fin.ignoreSelector)
    /\ fi' = fi + 1
    /\ UNCHANGED <<fin, fpc, fout>>
    /\ UNCHANGED NotFactory

\* return { ranges: serializedRanges }
FactoryReturn ==
    /\ fpc = "loop"
    /\ ~ (fi < Len(fin.ranges))
    /\ fout' = FactoryResult(serializedRanges)
    /\ fpc' = "returned"
    /\ UNCHANGED <<fin, fi, text, serializedRanges>>
    /\ UNCHANGED NotFactory

----------------------------------------------------------------------------
\* The permission checkboxes of the editor (addPermissionsCheckboxes).

NotPermissions == <<variant, phase, state, dynamicStyle, lastEvent, calls, ops, store,
                    fin, fpc, fi, text, serializedRanges, fout>>

Null == "null"
Undefined == "undefined"
Users == {"alice", "bob"}

\* What ident.who() can return.
WhoValues == {Null, Undefined} \cup Users

\* The actions that have a checkbox.
CheckboxActions == {"read", "update"}

\* authz.authorizedUserId(u)
AuthorizedUserId(u) == [userid |-> u]

\* A key of annotation.permissions: absent, or a list of user identifiers.
AbsentEntry == [present |-> FALSE, users |-> <<>>]
ListEntry(l) == [present |-> TRUE, users |-> l]
Entries == {AbsentEntry} \cup {ListEntry(<<AuthorizedUserId(u)>>) : u \in Users}

\* annotation.permissions: the key is absent, or holds null, or holds an object.
NoPermissions(kind) == [kind |-> kind, read |-> AbsentEntry, update |-> AbsentEntry]
EmptyObject == NoPermissions("object")
PermissionValues ==
    {NoPermissions("absent"), NoPermissions("null")}
    \cup {[kind |-> "object", read |-> r, update |-> w] : r \in Entries, w \in Entries}

\* The annotations the editor is opened on.
PermAnnotations ==
    {[ranges |-> makeAnnotation(<<"r1">>).ranges, permissions |-> p] : p \in PermissionValues}

\* One call of authz.permits(action, annotation, user) and what it returned.
Permits(action, ann, user, ret) == [action |-> action, ann |-> ann, user |-> user, ret |-> ret]

NoCallback == [name |-> "none", action |-> "read", u |-> Null, checked |-> FALSE,
               before |-> [ranges |-> <<>>, permissions |-> NoPermissions("absent")],
               fieldBefore |-> [visible |-> TRUE, checked |-> FALSE],
               permits |-> <<>>, repeat |-> FALSE]

\* typeof u === 'undefined' || u === null
NoUser(u) == u = Undefined \/ u = Null

\* !annotation.permissions
Falsy(p) == p.kind # "object"

LoadVisible_NoAdminCheck(u, adminPermitted) == ~ NoUser(u)

\* loadCallback: whether the field is shown when the callback returns:
\* show(), then hide() if no user is set, then hide() if the user is not admin.
LoadVisible(u, adminPermitted) ==
    LET shown == TRUE
        afterUser == IF NoUser(u) THEN FALSE ELSE shown
    IN  IF ~ adminPermitted THEN FALSE ELSE afterUser

\* loadCallback: the user the 'admin' question is asked about, and the user
\* the question about `action` is asked about.
LoadAdminUser(u) == u
LoadActionUser(u) == Null

submitCallback_Inverted(action, checked, u, ann) ==
    IF NoUser(u) THEN ann
    ELSE LET p == IF Falsy(ann.permissions) THEN EmptyObject ELSE ann.permissions IN
         [ann EXCEPT !.permissions =
            IF ~ checked
            THEN [p EXCEPT ![action] = AbsentEntry]
            ELSE [p EXCEPT ![action] = ListEntry(<<AuthorizedUserId(u)>>)]]

\* submitCallback(field, annotation) of createSubmitCallback(action), where
\* checked is util.$(field).find('input').is(':checked') and u is ident.who():
\* the annotation as the callback leaves it.
submitCallback(action, checked, u, ann) ==
    IF NoUser(u) THEN ann
    ELSE LET p == IF Falsy(ann.permissions) THEN EmptyObject ELSE ann.permissions IN
         [ann EXCEPT !.permissions =
            IF checked
            THEN [p EXCEPT ![action] = AbsentEntry]
            ELSE [p EXCEPT ![action] = ListEntry(<<AuthorizedUserId(u)>>)]]

\* loadCallback(field, annotation) of createLoadCallback(action); the two
\* answers of authz.permits are the policy's, which the host injects.
LoadCallback(action, adminPermitted, anonPermitted) ==
    /\ field' = [field EXCEPT ![action] =
                    [visible |-> LoadVisible(who, adminPermitted),
                     checked |-> anonPermitted]]
    /\ cbLog' = [NoCallback EXCEPT
                    !.name = "load", !.action = action, !.u = who,
                    !.before = annotation, !.fieldBefore = field[action],
                    !.permits = <<Permits("admin", annotation, LoadAdminUser(who), adminPermitted),
                                  Permits(action, annotation, LoadActionUser(who), anonPermitted)>>]
    /\ UNCHANGED <<who, annotation>>
    /\ UNCHANGED NotPermissions

\* the submit callback of the checkbox for `action`
SubmitCallback(action) ==
    /\ annotation' = submitCallback(action, field[action].checked, who, annotation)
    /\ cbLog' = [NoCallback EXCEPT
                    !.name = "submit", !.action = action, !.u = who,
                    !.checked = field[action].checked,
                    !.before = annotation, !.fieldBefore = field[action],
                    !.repeat = /\ cbLog.name = "submit"
                               /\ cbLog.action = action
                               /\ cbLog.u = who
                               /\ cbLog.checked = field[action].checked]
    /\ UNCHANGED <<who, field>>
    /\ UNCHANGED NotPermissions

\* the user ticks or unticks the checkbox for `action`
ToggleCheckbox(action) ==
    /\ field[action].visible
    /\ field' = [field EXCEPT ![action].checked = ~ @]
    /\ cbLog' = NoCallback
    /\ UNCHANGED <<who, annotation>>
    /\ UNCHANGED NotPermissions

\* the identity policy starts to answer u (a login or a logout)
IdentChange(u) ==
    /\ u # who
    /\ who' = u
    /\ cbLog' = NoCallback
    /\ UNCHANGED <<annotation, field>>
    /\ UNCHANGED NotPermissions

----------------------------------------------------------------------------
\* Specifications.

LifecycleInit ==
    /\ phase = "constructed"
    /\ state = [interactionPoint |-> NullPoint]
    /\ dynamicStyle = TRUE
    /\ lastEvent = NoEvent
    /\ calls = <<>>
    /\ ops = <<>>
    /\ store = {}

FactoryInit ==
    /\ fin = [ranges |-> <<>>, contextEl |-> Element, ignoreSelector |-> IgnoreSelector]
    /\ fpc = "idle"
    /\ fi = 0
    /\ text = <<>>
    /\ serializedRanges = <<>>
    /\ fout = NoAnnotation

PermInit ==
    /\ field = [a \in CheckboxActions |-> [visible |-> TRUE, checked |-> FALSE]]
    /\ cbLog = NoCallback

\* The lifecycle of the module, in either variant.
Init ==
    /\ variant \in Variants
    /\ LifecycleInit
    /\ FactoryInit
    /\ PermInit
    /\ who = Null
    /\ annotation = [ranges |-> <<>>, permissions |-> NoPermissions("absent")]

Next ==
    \/ Start
    \/ Destroy
    \/ \E ranges \in Selections, event \in Events : OnSelection(ranges, event)
    \/ AdderOnCreate
    \/ \E ann \in store, pos \in ViewerPositions : ViewerOnEdit(ann, pos)
    \/ \E ann \in store : ViewerOnDelete(ann)
    \/ AnnotationsLoaded(Preloaded)
    \/ \E i \in 1..Len(ops) : AfterHook(i)
    \/ \E ok \in BOOLEAN : EditorClose(ok)
    \/ \E i \in 1..Len(ops) : HostStore(i)

Spec == Init /\ [][Next]_vars

\* annotationFactory on every range list of at most MaxLen ranges.
InitFactory ==
    /\ variant \in Variants
    /\ LifecycleInit
    /\ FactoryInit
    /\ PermInit
    /\ who = Null
    /\ annotation = [ranges |-> <<>>, permissions |-> NoPermissions("absent")]

NextFactory ==
    \/ \E ranges \in RangeLists(MaxLen), contextEl \in ContextEls :
            FactoryCall(ranges, contextEl)
    \/ FactoryIter
    \/ FactoryReturn

SpecFactory == InitFactory /\ [][NextFactory]_vars

\* The permission checkboxes on every annotation and identity.
InitPermissions ==
    /\ variant = "part_000"
    /\ LifecycleInit
    /\ FactoryInit
    /\ PermInit
    /\ who \in WhoValues
    /\ annotation \in PermAnnotations

NextPermissions ==
    \/ \E a \in CheckboxActions, adminPermitted \in BOOLEAN, anonPermitted \in BOOLEAN :
            LoadCallback(a, adminPermitted, anonPermitted)
    \/ \E a \in CheckboxActions : SubmitCallback(a)
    \/ \E a \in CheckboxActions : ToggleCheckbox(a)
    \/ \E u \in WhoValues : IdentChange(u)

SpecPermissions == InitPermissions /\ [][NextPermissions]_vars

----------------------------------------------------------------------------
\* Properties of the lifecycle (Spec).

CreateOrUpdate(op) == op.kind \in {"create", "update"}

CallsOf(fn) == {k \in 1..Len(calls) : calls[k].fn = fn}

StorageCalls == {"app.annotations.create", "app.annotations.update", "app.annotations.delete"}

\* C1: an operation whose editing was cancelled has a rejected deferred
\* result, and it is never stored and its after-hook is never run: it stays
\* where the before-hook left it.
C1_CancelAborts ==
    \A i \in 1..Len(ops) :
        ops[i].editing = "cancelled" =>
            /\ Deferred(ops[i]) = "rejected"
            /\ ops[i].stage = "before"

\* a create was cancelled in the editor while another operation went through
C1_Witness ==
    \E i, j \in 1..Len(ops) :
        /\ ops[i].editing = "cancelled"
        /\ ops[i].kind = "create"
        /\ ops[j].stage = "done"

\* C2: every create or update is stalled on the deferred result of
\* editor.load: it is stored (and its highlight drawn) only after the editor
\* was submitted for it, and the deferred result is unsettled while the
\* editor waits for the user.
C2_StalledOnEditor ==
    \A i \in 1..Len(ops) :
        CreateOrUpdate(ops[i]) =>
            /\ ops[i].returned = "editor.load"
            /\ ops[i].stage # "before" => ops[i].editing = "submitted"
            /\ ops[i].editing = "waiting" => Deferred(ops[i]) = "pending"

\* C3: a selection of at least one range only loads the add control with the
\* new annotation and the mouse position, and app.annotations.create is called
\* from the add control's onCreate alone.
C3_CreateOnlyFromAdder ==
    /\ (lastEvent.name = "onSelection" /\ Len(lastEvent.ranges) > 0) =>
            /\ \E k \in CallsOf("adder.load") :
                    /\ calls[k].ann = makeAnnotation(lastEvent.ranges)
                    /\ calls[k].point = lastEvent.point
            /\ CallsOf("app.annotations.create") = {}
    /\ CallsOf("app.annotations.create") # {} => lastEvent.name = "adder.onCreate"

\* C5: each lifecycle callback makes exactly one call, the highlighter's
\* drawAll / draw / undraw / redraw on its argument, and the storage is called
\* from the add control's onCreate and the viewer's onEdit and onDelete alone.
C5_CallbacksOnlyRender ==
    /\ lastEvent.name = "annotationsLoaded" =>
            /\ Len(calls) = 1
            /\ calls[1].fn = "highlighter.drawAll"
            /\ calls[1].anns = Preloaded
    /\ lastEvent.name = "annotationCreated" =>
            calls = <<Call("highlighter.draw", "", lastEvent.ann, NullPoint)>>
    /\ lastEvent.name = "annotationDeleted" =>
            calls = <<Call("highlighter.undraw", "", lastEvent.ann, NullPoint)>>
    /\ lastEvent.name = "annotationUpdated" =>
            calls = <<Call("highlighter.redraw", "", lastEvent.ann, NullPoint)>>
    /\ (\E k \in 1..Len(calls) : calls[k].fn \in StorageCalls) =>
            lastEvent.name \in {"adder.onCreate", "viewer.onEdit", "viewer.onDelete"}

\* The part of C5 that both source files satisfy: a lifecycle callback makes
\* its one highlighter call and changes neither `state` nor the operations.
C5_CallbacksFrame ==
    [][lastEvent'.name \in {"annotationsLoaded", "annotationCreated",
                            "annotationDeleted", "annotationUpdated"} =>
            /\ state' = state
            /\ Len(ops') = Len(ops)
            /\ \A i \in 1..Len(ops) : ops'[i].ann = ops[i].ann
            /\ Len(calls') = 1
            /\ calls'[1].fn \notin StorageCalls]_vars

\* C8: onSelection with no range calls neither the factory nor adder.load nor
\* the storage, leaves state.interactionPoint alone, and hides the add control
\* where there is one.
C8_EmptySelection ==
    [][(lastEvent'.name = "onSelection" /\ Len(lastEvent'.ranges) = 0) =>
            /\ state'.interactionPoint = state.interactionPoint
            /\ ops' = ops
            /\ calls' = IF "adder" \in DOMAIN state
                        THEN <<Call("adder.hide", "", NoAnnotation, NullPoint)>>
                        ELSE <<>>
            /\ "adder" \in DOMAIN state => ~ state'.adder.shown]_vars

\* an empty selection arrived after a selection had set the interaction point
\* and shown the add control
C8_Witness ==
    /\ lastEvent.name = "onSelection"
    /\ Len(lastEvent.ranges) = 0
    /\ state.interactionPoint.kind = "mouse"
    /\ "adder" \in DOMAIN state
    /\ state.adder.annotation # NoAnnotation
    /\ ~ state.adder.shown

\* C9: destroy() after start(app) does not throw, calls destroy once on every
\* widget start stored in `state`, and removes the dynamic stylesheet.
C9_DestroyTearsDown ==
    /\ phase # "threw"
    /\ phase = "destroyed" =>
            /\ \A w \in DOMAIN state \ {"interactionPoint"} : state[w].destroyed = 1
            /\ ~ dynamicStyle

\* C10: the editor is loaded at the interaction point of the event that
\* started the operation: the viewer's position for an update from onEdit, the
\* selection's mouse position for a create.
C10_PointOfOperation ==
    (\E k \in 1..Len(calls) : calls[k].fn \in {"app.annotations.create",
                                              "app.annotations.update"}) =>
        \E k \in CallsOf("editor.load") :
            /\ calls[k].ann = lastEvent.ann
            /\ calls[k].point = lastEvent.point

\* C10 in the variant that has the add control and the editor.
C10_PointOfOperation_Adder == variant = "part_000" => C10_PointOfOperation

----------------------------------------------------------------------------
\* Properties of annotationFactory (SpecFactory).

\* C4: for a non-empty range list the annotation has one serialized range per
\* selected range, the i-th being the i-th range serialized relative to the
\* root with '.annotator-hl' ignored, and no key but `ranges`.
C4_FactoryRanges ==
    /\ (fpc = "returned" /\ Len(fin.ranges) > 0) =>
            /\ DOMAIN fout = {"ranges"}
            /\ Len(fout.ranges) = Len(fin.ranges)
            /\ \A i \in 1..Len(fin.ranges) :
                    fout.ranges[i] = Serialize(fin.ranges[i], fin.contextEl, ".annotator-hl")
            /\ fout = annotationFactory(fin.contextEl, ".annotator-hl", fin.ranges)

\* the factory returned for two different ranges
C4_Witness ==
    /\ fpc = "returned"
    /\ Len(fin.ranges) >= 2
    /\ fin.ranges[1] # fin.ranges[2]
    /\ Len(fout.ranges) = Len(fin.ranges)

----------------------------------------------------------------------------
\* Properties of the permission checkboxes (SpecPermissions).

OtherAction(a) == IF a = "read" THEN "update" ELSE "read"

\* What the policy answered to permits(action, annotation, user) in the last callback.
Permitted(action, user) ==
    \E k \in 1..Len(cbLog.permits) :
        /\ cbLog.permits[k].action = action
        /\ cbLog.permits[k].ann = annotation
        /\ cbLog.permits[k].user = user
        /\ cbLog.permits[k].ret

\* C6: the submit callback leaves the annotation alone when no user is set;
\* otherwise permissions exists, permissions[A] is absent if the box is
\* checked and [authorizedUserId(user)] if not, and the other action's entry
\* is as before.  A second submit with the same box and user changes nothing.
C6_SubmitShapesPermissions ==
    cbLog.name = "submit" =>
        LET a == cbLog.action
            u == cbLog.u
            b == cbLog.before IN
        /\ IF u = Null \/ u = Undefined
           THEN annotation = b
           ELSE /\ annotation.permissions.kind = "object"
                /\ cbLog.checked => ~ annotation.permissions[a].present
                /\ ~ cbLog.checked =>
                        annotation.permissions[a] = ListEntry(<<AuthorizedUserId(u)>>)
                /\ annotation.permissions[OtherAction(a)] =
                        IF b.permissions.kind = "object"
                        THEN b.permissions[OtherAction(a)]
                        ELSE AbsentEntry
                /\ annotation.ranges = b.ranges
        /\ cbLog.repeat => annotation = b

\* the same user submitted the same unchecked box twice in a row
C6_Witness ==
    /\ cbLog.name = "submit"
    /\ cbLog.repeat
    /\ cbLog.u \in Users
    /\ ~ cbLog.checked
    /\ annotation.permissions[OtherAction(cbLog.action)].present

\* C7: after the load callback the field is visible exactly if a user is set
\* and the policy permits 'admin' on the annotation to that user; the box is
\* checked exactly if the policy permits the action to no user; the annotation
\* is as before.
C7_LoadShowsAndChecks ==
    cbLog.name = "load" =>
        LET a == cbLog.action
            u == cbLog.u IN
        /\ field[a].visible <=> (~ (u = Null \/ u = Undefined) /\ Permitted("admin", u))
        /\ field[a].checked <=> Permitted(a, Null)
        /\ annotation = cbLog.before

\* a user who is not admin loaded an annotation anyone may read: hidden, checked
C7_Witness ==
    /\ cbLog.name = "load"
    /\ cbLog.u \in Users
    /\ ~ field[cbLog.action].visible
    /\ field[cbLog.action].checked
    /\ cbLog.fieldBefore.visible

====
